---- MODULE Spec2Model ----
(***************************************************************************)
(* The two request handlers of rekognition-patient-id:                     *)
(*   build-register/register_patient.py   handler  (registration)          *)
(*   build-identify/identify_patient.py   handler  (identification)        *)
(* together with the two collaborators they call: the face collection of   *)
(* the recognizer (index_faces, search_faces_by_image) and the record      *)
(* table (put_item, query on the face_id index).                           *)
(*                                                                         *)
(* One action is one whole invocation of a handler.  The request and what  *)
(* the collaborators answer are the inputs of the action.  Invocations run *)
(* one at a time: Return hands the response to the caller and ends the     *)
(* invocation.                                                             *)
(***************************************************************************)
EXTENDS Naturals, Sequences, FiniteSets, TLC

VARIABLES
    collection,   \* faces indexed by the recognizer: [FaceId, ExternalImageId]
    store,        \* the table: a set of items, at most one per primary key
    nextFace,     \* number of the next face identifier the recognizer assigns
    registered,   \* history: per patient_id, the face ids of its 201 answers
    inv           \* the invocation that has run and whose response is being
                  \* returned (handler, event, calls, resp); Idle between two

vars == <<collection, store, nextFace, registered, inv>>

---------------------------------------------------------------------------
(* Bounds *)

\* how many faces the recognizer indexes in one behaviour
MaxFaces == 3

\* SpecRequests: requests are served while the collection holds at most
\* this many faces
MaxWarmFaces == 1

---------------------------------------------------------------------------
(* Values *)

\* MATCH_THRESHOLD default
THRESHOLD == 95

PatientIds == {"p1", "p2"}

\* the identifiers the recognizer assigns, in the order it assigns them
FaceNames == <<"f1", "f2", "f3", "f4">>

FaceIdOf(n) == FaceNames[n]

\* str(int): the decimal text of a clock reading
Str(n) == <<"1000", "1001">>[n]

\* JSON and Python values carry their type: str, num, obj (dict), null
JStr(s) == [t |-> "str", v |-> s]

JNum(s) == [t |-> "num", v |-> s]

JObj(f) == [t |-> "obj", v |-> f]

JNull == [t |-> "null", v |-> "null"]

\* a mapping from the given keys
Map1(k, x) == [i \in {k} |-> x]

Map2(k1, x1, k2, x2) == [i \in {k1, k2} |-> IF i = k1 THEN x1 ELSE x2]

EmptyMap == [i \in {} |-> JNull]

---------------------------------------------------------------------------
(* base64.b64decode(s) with validate=False, on a str.                      *)
(* A character is one of: a character of the base64 alphabet ("A", "B"),   *)
(* the pad "=", an ASCII character outside the alphabet ("!", "_"), or a   *)
(* non-ASCII character ("é").                                              *)

B64Alphabet == {"A", "B"}

Pad == "="

Ascii == B64Alphabet \cup {Pad, "!", "_"}

\* str.encode('ascii') in _bytes_from_decode_data
IsAscii(s) == \A i \in 1..Len(s) : s[i] \in Ascii

\* binascii.a2b_base64, strict_mode off: the scan over the characters.
\* st = [quad, pads, done, out]: position in the quad, pads seen since the
\* last data character, whether a pad sequence ended the scan, bytes emitted.
A2bStep(st, ch) ==
    IF st.done THEN st
    ELSE IF ch = Pad THEN
        IF st.quad >= 2 /\ st.quad + st.pads + 1 >= 4
        THEN [st EXCEPT !.done = TRUE, !.pads = st.pads + 1]
        ELSE [st EXCEPT !.pads = IF st.quad >= 2 THEN st.pads + 1 ELSE st.pads]
    ELSE IF ch \notin B64Alphabet THEN st
    ELSE [quad |-> (st.quad + 1) % 4,
          pads |-> 0,
          done |-> FALSE,
          out  |-> IF st.quad = 0 THEN st.out ELSE st.out + 1]

RECURSIVE A2bScan(_, _, _)
A2bScan(s, i, st) ==
    IF i > Len(s) THEN st ELSE A2bScan(s, i + 1, A2bStep(st, s[i]))

A2bStart == [quad |-> 0, pads |-> 0, done |-> FALSE, out |-> 0]

\* the result: the number of decoded bytes, or the error raised
B64Decode(s) ==
    IF ~IsAscii(s)
    THEN [exc |-> "string argument should contain only ASCII characters"]
    ELSE LET st == A2bScan(s, 1, A2bStart) IN
         IF st.done \/ st.quad = 0 THEN [bytes |-> st.out]
         ELSE IF st.quad = 1
         THEN [exc |-> "Invalid base64-encoded string: number of data characters cannot be 1 more than a multiple of 4"]
         ELSE [exc |-> "Incorrect padding"]

Raised(r) == "exc" \in DOMAIN r

---------------------------------------------------------------------------
(* Requests *)

\* the image of a well-formed request
GoodImage == <<"A", "A", "A", "A">>

\* image_base64 strings, as sequences of characters
Images ==
    { GoodImage,                         \* well-formed, 3 bytes
      <<"A", "B", "=", "=">>,            \* well-formed, 1 byte
      <<"A", "A", "A">>,                 \* wrong length
      <<"A", "=", "=", "=">>,            \* wrong padding, 1 data character
      <<"A", "A", "A", "A", "!">>,       \* a character outside the alphabet
      <<"A", "A", "=", "=", "=">>,       \* one pad too many
      <<"A", "é", "A", "A">> }           \* non-ASCII

\* the values of "attributes" a request may carry
AttributeValues ==
    { JObj(EmptyMap),
      JObj(Map2("name", JStr("a"), "age", JNum("30"))),
      JObj(Map1("face_id", JStr("f1"))),
      JObj(Map1("patient_id", JStr("p2"))),
      JObj(Map1("similarity", JStr("a"))),
      JNull }

\* a JSON object with the given image_base64, patient_id and attributes,
\* each a set of at most one value (empty: the key is absent)
Document(imgs, pids, atts) ==
    JObj([k \in { x \in {"image_base64"} : imgs # {} } \cup
                { x \in {"patient_id"} : pids # {} } \cup
                { x \in {"attributes"} : atts # {} } |->
            IF k = "image_base64" THEN JStr(CHOOSE i \in imgs : TRUE)
            ELSE IF k = "patient_id" THEN JStr(CHOOSE p \in pids : TRUE)
            ELSE CHOOSE a \in atts : TRUE])

AtMostOne(S) == { {} } \cup { {x} : x \in S }

JList == [t |-> "list", v |-> "[]"]

\* event["body"]: absent, a text (that parses to a document or does not), or
\* an already structured object
TextBody(d) == [form |-> "text", parses |-> TRUE, doc |-> d]

ObjectBody(d) == [form |-> "object", doc |-> d]

MalformedBodies ==
    { [form |-> "none"], [form |-> "text", parses |-> FALSE],
      TextBody(JList), ObjectBody(JObj(EmptyMap)) }

\* the bodies of registration requests
RegisterBodies ==
    MalformedBodies \cup
    { TextBody(Document(i, p, a)) :
        i \in AtMostOne(Images), p \in AtMostOne(PatientIds),
        a \in AtMostOne(AttributeValues) } \cup
    { ObjectBody(Document({GoodImage}, {p}, a)) :
        p \in PatientIds, a \in AtMostOne({JNull}) }

\* the bodies of identification requests
IdentifyBodies ==
    MalformedBodies \cup
    { TextBody(Document(i, {}, {})) : i \in AtMostOne(Images) } \cup
    { ObjectBody(Document({GoodImage}, {}, {})) }

\* the requests of a client that sends what the contract asks for: a
\* well-formed image, a patient_id, any attributes

ClientRegisterBodies ==
    { TextBody(Document({GoodImage}, {p}, a)) :
        p \in PatientIds, a \in AtMostOne(AttributeValues) }

ClientIdentifyBodies == { TextBody(Document({GoodImage}, {}, {})) }

---------------------------------------------------------------------------
(* Shared: response shaping and body parsing (both handlers)               *)

\* _resp(code, obj); body is the JSON document that json.dumps(obj) encodes
Resp(code, obj) ==
    [statusCode |-> code,
     headers    |-> [ContentType |-> "application/json"],
     body       |-> obj]

\* json.loads(body_raw)
JsonLoads(text) ==
    IF text.parses THEN [val |-> text.doc]
    ELSE [exc |-> "Expecting value: line 1 column 1 (char 0)"]

\* body = json.loads(body_raw) if isinstance(body_raw, str) else (body_raw or {})
ParseBody(event) ==
    LET body_raw == event.body IN
    IF body_raw.form = "text" THEN JsonLoads(body_raw)
    ELSE IF body_raw.form = "object" THEN [val |-> body_raw.doc]
    ELSE [val |-> JObj(EmptyMap)]

\* str(KeyError(key)): the key in quotes
KeyErrorText(key) ==
    IF key = "image_base64" THEN "'image_base64'" ELSE "'patient_id'"

\* body[key]: KeyError on a dict without the key, TypeError on a list
GetItem(body, key) ==
    IF body.t # "obj"
    THEN [exc |-> "list indices must be integers or slices, not str"]
    ELSE IF key \notin DOMAIN body.v THEN [exc |-> KeyErrorText(key)]
    ELSE [val |-> body.v[key]]

\* body.get(key, {})
GetOrEmpty(body, key) ==
    IF key \in DOMAIN body.v THEN body.v[key] ELSE JObj(EmptyMap)

---------------------------------------------------------------------------
(* The record table                                                        *)

\* put_item: the item replaces the one with the same primary key patient_id
PutItem(table, item) ==
    { i \in table : i["patient_id"] # item["patient_id"] } \cup { item }

\* query on face_id-index with Limit=1: the answers the table can give
QueryByFaceId(table, face_id) ==
    LET hits == { i \in table : i["face_id"] = [S |-> face_id] } IN
    IF hits = {} THEN { [Items |-> <<>>] }
    ELSE { [Items |-> <<i>>] : i \in hits }

ClientError == [exc |-> "ClientError"]

---------------------------------------------------------------------------
(* build-register/register_patient.py                                      *)

\* _now_ms(): the reading of the clock, counted from the first reading of
\* the invocation; the second reading falls in the same millisecond or the next
NowMs == {1, 2}

\* the attributes loop: for k, v in attrs.items(): if isinstance(v, str): item[k] = {'S': v}
MergeAttributes(item, attrs) ==
    LET strs == { k \in DOMAIN attrs : attrs[k].t = "str" } IN
    [k \in DOMAIN item \cup strs |->
        IF k \in strs THEN [S |-> attrs[k].v] ELSE item[k]]

\* the item literal
NewItem(patient_id, face_id, t1, t2) ==
    [k \in {"patient_id", "face_id", "created_at", "updated_at"} |->
        IF k = "patient_id" THEN [S |-> patient_id]
        ELSE IF k = "face_id" THEN [S |-> face_id]
        ELSE IF k = "created_at" THEN [N |-> Str(t1)]
        ELSE [N |-> Str(t2)]]

IndexCall(patient_id, out) ==
    [op |-> "index_faces", ExternalImageId |-> patient_id, out |-> out]

PutCall(item, out) == [op |-> "put_item", Item |-> item, out |-> out]

\* RegisterStore answering with the fields of the item it wrote
RegisterStoreEchoItem(patient_id, attrs, idx, put, t1, t2) ==
    LET face_id == idx.FaceRecords[1].Face.FaceId
        base    == NewItem(patient_id, face_id, t1, t2)
        ixc     == IndexCall(patient_id, idx)
    IN  IF attrs.t # "obj"
        THEN [resp  |-> Resp(500, [error |-> "'NoneType' object has no attribute 'items'"]),
              calls |-> <<ixc>>]
        ELSE LET item == MergeAttributes(base, attrs.v) IN
             IF Raised(put)
             THEN [resp  |-> Resp(500, [error |-> put.exc]),
                   calls |-> <<ixc, PutCall(item, put)>>]
             ELSE [resp  |-> Resp(201, [patient_id |-> item["patient_id"].S,
                                        face_id |-> item["face_id"].S]),
                   calls |-> <<ixc, PutCall(item, put)>>]

\* RegisterStore answering 201 whether or not put_item raised
RegisterStoreIgnoresPutError(patient_id, attrs, idx, put, t1, t2) ==
    LET face_id == idx.FaceRecords[1].Face.FaceId
        base    == NewItem(patient_id, face_id, t1, t2)
        ixc     == IndexCall(patient_id, idx)
    IN  IF attrs.t # "obj"
        THEN [resp  |-> Resp(500, [error |-> "'NoneType' object has no attribute 'items'"]),
              calls |-> <<ixc>>]
        ELSE LET item == MergeAttributes(base, attrs.v) IN
             [resp  |-> Resp(201, [patient_id |-> patient_id, face_id |-> face_id]),
              calls |-> <<ixc, PutCall(item, put)>>]

\* from the face record on: build the item, put it, answer 201
RegisterStore(patient_id, attrs, idx, put, t1, t2) ==
    LET face_id == idx.FaceRecords[1].Face.FaceId
        base    == NewItem(patient_id, face_id, t1, t2)
        ixc     == IndexCall(patient_id, idx)
    IN  IF attrs.t # "obj"
        THEN [resp  |-> Resp(500, [error |-> "'NoneType' object has no attribute 'items'"]),
              calls |-> <<ixc>>]
        ELSE LET item == MergeAttributes(base, attrs.v) IN
             IF Raised(put)
             THEN [resp  |-> Resp(500, [error |-> put.exc]),
                   calls |-> <<ixc, PutCall(item, put)>>]
             ELSE [resp  |-> Resp(201, [patient_id |-> patient_id, face_id |-> face_id]),
                   calls |-> <<ixc, PutCall(item, put)>>]

\* RegisterIndex reading attrs.items() before it looks at the face records
RegisterIndexAttrsFirst(patient_id, attrs, idx, put, t1, t2) ==
    IF Raised(idx)
    THEN [resp  |-> Resp(500, [error |-> idx.exc]),
          calls |-> <<IndexCall(patient_id, idx)>>]
    ELSE IF attrs.t # "obj"
    THEN [resp  |-> Resp(500, [error |-> "'NoneType' object has no attribute 'items'"]),
          calls |-> <<IndexCall(patient_id, idx)>>]
    ELSE IF idx.FaceRecords = <<>>
    THEN [resp  |-> Resp(422, [message |-> "No face detected or poor quality."]),
          calls |-> <<IndexCall(patient_id, idx)>>]
    ELSE RegisterStore(patient_id, attrs, idx, put, t1, t2)

\* from the decoded image on: index the face, 422 without a face record
RegisterIndex(patient_id, attrs, idx, put, t1, t2) ==
    IF Raised(idx)
    THEN [resp  |-> Resp(500, [error |-> idx.exc]),
          calls |-> <<IndexCall(patient_id, idx)>>]
    ELSE IF idx.FaceRecords = <<>>
    THEN [resp  |-> Resp(422, [message |-> "No face detected or poor quality."]),
          calls |-> <<IndexCall(patient_id, idx)>>]
    ELSE RegisterStore(patient_id, attrs, idx, put, t1, t2)

\* handler(event, context): idx and put are what index_faces and put_item
\* answer if called, t1 and t2 the two readings of the clock
RegisterHandler(event, idx, put, t1, t2) ==
    LET parsed == ParseBody(event) IN
    IF Raised(parsed) THEN [resp |-> Resp(500, [error |-> parsed.exc]), calls |-> <<>>]
    ELSE
    LET body      == parsed.val
        image_b64 == GetItem(body, "image_base64")
    IN
    IF Raised(image_b64) THEN [resp |-> Resp(500, [error |-> image_b64.exc]), calls |-> <<>>]
    ELSE
    LET patient_id == GetItem(body, "patient_id") IN
    IF Raised(patient_id) THEN [resp |-> Resp(500, [error |-> patient_id.exc]), calls |-> <<>>]
    ELSE
    LET attrs     == GetOrEmpty(body, "attributes")
        img_bytes == B64Decode(image_b64.val.v)
    IN
    IF Raised(img_bytes) THEN [resp |-> Resp(500, [error |-> img_bytes.exc]), calls |-> <<>>]
    ELSE RegisterIndex(patient_id.val.v, attrs, idx, put, t1, t2)

---------------------------------------------------------------------------
(* build-identify/identify_patient.py                                      *)

\* list(v.keys())[0]: the type name of a typed field instead of its value
UnwrapKey(v) == JStr(CHOOSE k \in DOMAIN v : TRUE)

\* list(v.values())[0]: the value of a typed field {'S': x} or {'N': x}, a str
Unwrap(v) == JStr(v[CHOOSE k \in DOMAIN v : TRUE])

\* result = {k: list(v.values())[0] for k, v in item.items()}
Flatten(item) == [k \in DOMAIN item |-> Unwrap(item[k])]

\* result['similarity'] = similarity
WithSimilarity(result, similarity) ==
    [k \in DOMAIN result \cup {"similarity"} |->
        IF k = "similarity" THEN JNum(similarity) ELSE result[k]]

SearchCall(out) == [op |-> "search_faces_by_image", out |-> out]

QueryCall(face_id, out) == [op |-> "query", face_id |-> face_id, out |-> out]

\* IdentifyLookup taking q['Items'][0] without looking whether there is one
IdentifyLookupUnchecked(res, q) ==
    LET match      == res.FaceMatches[1]
        face_id    == match.Face.FaceId
        similarity == match.Similarity
        calls      == <<SearchCall(res), QueryCall(face_id, q)>>
    IN  IF Raised(q) THEN [resp |-> Resp(500, [error |-> q.exc]), calls |-> calls]
        ELSE IF q.Items = <<>>
        THEN [resp  |-> Resp(500, [error |-> "list index out of range"]),
              calls |-> calls]
        ELSE [resp  |-> Resp(200, WithSimilarity(Flatten(q.Items[1]), similarity)),
              calls |-> calls]

\* IdentifyLookup treating a failed query as a query without items
IdentifyLookupSwallow(res, q) ==
    LET match      == res.FaceMatches[1]
        face_id    == match.Face.FaceId
        similarity == match.Similarity
        calls      == <<SearchCall(res), QueryCall(face_id, q)>>
    IN  IF Raised(q) \/ q.Items = <<>>
        THEN [resp  |-> Resp(404, [message |-> "Face mapped but no patient record"]),
              calls |-> calls]
        ELSE [resp  |-> Resp(200, WithSimilarity(Flatten(q.Items[1]), similarity)),
              calls |-> calls]

\* from the match on: query the index, 404 without a record, else 200
IdentifyLookup(res, q) ==
    LET match      == res.FaceMatches[1]
        face_id    == match.Face.FaceId
        similarity == match.Similarity
        calls      == <<SearchCall(res), QueryCall(face_id, q)>>
    IN  IF Raised(q) THEN [resp |-> Resp(500, [error |-> q.exc]), calls |-> calls]
        ELSE IF q.Items = <<>>
        THEN [resp  |-> Resp(404, [message |-> "Face mapped but no patient record"]),
              calls |-> calls]
        ELSE [resp  |-> Resp(200, WithSimilarity(Flatten(q.Items[1]), similarity)),
              calls |-> calls]

\* handler(event, context): res and q are what search_faces_by_image and
\* query answer if called
IdentifyHandler(event, res, q) ==
    LET parsed == ParseBody(event) IN
    IF Raised(parsed) THEN [resp |-> Resp(500, [error |-> parsed.exc]), calls |-> <<>>]
    ELSE
    LET image_b64 == GetItem(parsed.val, "image_base64") IN
    IF Raised(image_b64) THEN [resp |-> Resp(500, [error |-> image_b64.exc]), calls |-> <<>>]
    ELSE
    LET img_bytes == B64Decode(image_b64.val.v) IN
    IF Raised(img_bytes) THEN [resp |-> Resp(500, [error |-> img_bytes.exc]), calls |-> <<>>]
    ELSE IF Raised(res)
    THEN [resp |-> Resp(500, [error |-> res.exc]), calls |-> <<SearchCall(res)>>]
    ELSE IF res.FaceMatches = <<>>
    THEN [resp  |-> Resp(404, [message |-> "No confident match"]),
          calls |-> <<SearchCall(res)>>]
    ELSE IdentifyLookup(res, q)

---------------------------------------------------------------------------
(* The recognizer                                                          *)

\* index_faces with MaxFaces=1: an error, no face record, or one record with
\* the next identifier
IndexOutcomes ==
    { ClientError, [FaceRecords |-> <<>>] } \cup
    { [FaceRecords |-> << [Face |-> [FaceId |-> FaceIdOf(n)]] >>] :
        n \in { m \in {nextFace} : m <= MaxFaces } }

\* search_faces_by_image with MaxFaces=1: an error, no match, or one indexed
\* face with a similarity at or above the threshold
Similarities == {THRESHOLD, 100}

SearchOutcomes ==
    { ClientError, [FaceMatches |-> <<>>] } \cup
    { [FaceMatches |-> << [Face |-> [FaceId |-> f.FaceId], Similarity |-> s] >>] :
        f \in collection, s \in Similarities }

\* the face a search would match, if it matches one
MatchedFace(res) ==
    IF Raised(res) \/ res.FaceMatches = <<>> THEN "none"
    ELSE res.FaceMatches[1].Face.FaceId

---------------------------------------------------------------------------
(* State machine *)

Idle == [handler |-> "none"]

Init ==
    /\ collection = {}
    /\ store = {}
    /\ nextFace = 1
    /\ registered = [p \in PatientIds |-> <<>>]
    /\ inv = Idle

\* what the calls of an invocation did to the collection and the table
Indexed(calls) ==
    { [FaceId |-> c.out.FaceRecords[1].Face.FaceId, ExternalImageId |-> c.ExternalImageId] :
        c \in { calls[i] : i \in { j \in 1..Len(calls) :
                    /\ calls[j].op = "index_faces"
                    /\ ~Raised(calls[j].out)
                    /\ calls[j].out.FaceRecords # <<>> } } }

Written(calls) ==
    { calls[i].Item : i \in { j \in 1..Len(calls) :
                    /\ calls[j].op = "put_item"
                    /\ ~Raised(calls[j].out) } }

Register(event, idx, put, t1, t2) ==
    LET run == RegisterHandler(event, idx, put, t1, t2) IN
    /\ inv = Idle
    /\ collection' = collection \cup Indexed(run.calls)
    /\ nextFace' = nextFace + Cardinality(Indexed(run.calls))
    /\ store' = IF Written(run.calls) = {} THEN store
                ELSE PutItem(store, CHOOSE i \in Written(run.calls) : TRUE)
    /\ registered' =
         IF run.resp.statusCode = 201
         THEN [registered EXCEPT ![run.resp.body.patient_id] =
                                     Append(@, run.resp.body.face_id)]
         ELSE registered
    /\ inv' = [handler |-> "register", event |-> event,
               calls |-> run.calls, resp |-> run.resp]

Identify(event, res, q) ==
    LET run == IdentifyHandler(event, res, q) IN
    /\ inv = Idle
    /\ inv' = [handler |-> "identify", event |-> event,
               calls |-> run.calls, resp |-> run.resp]
    /\ UNCHANGED <<collection, store, nextFace, registered>>

\* the response reaches the caller; the invocation is over
Return ==
    /\ inv # Idle
    /\ inv' = Idle
    /\ UNCHANGED <<collection, store, nextFace, registered>>

\* an invocation of the registration handler with a body of RB, the second
\* clock reading in T2
RegisterAny(RB, T2) ==
    \E b \in RB, idx \in IndexOutcomes, put \in {ClientError, [ok |-> TRUE]},
       t2 \in T2 :
        Register([body |-> b], idx, put, 1, t2)

\* an invocation of the identification handler with a body of IB
IdentifyAny(IB) ==
    \E b \in IB, res \in SearchOutcomes :
        \E q \in {ClientError} \cup QueryByFaceId(store, MatchedFace(res)) :
            Identify([body |-> b], res, q)

\* the life of the collection and the table under well-formed requests
Next ==
    \/ RegisterAny(ClientRegisterBodies, {1})
    \/ IdentifyAny(ClientIdentifyBodies)
    \/ Return

Spec == Init /\ [][Next]_vars

\* any request, against a collection of at most MaxWarmFaces faces
Warm == Cardinality(collection) <= MaxWarmFaces

NextRequests ==
    \/ Warm /\ RegisterAny(RegisterBodies, NowMs)
    \/ Warm /\ IdentifyAny(IdentifyBodies)
    \/ Return

SpecRequests == Init /\ [][NextRequests]_vars

---------------------------------------------------------------------------
(* What a request is, read off the event alone                             *)

\* the body holds a JSON object
ReqHasObject(e) ==
    /\ e.body.form # "none"
    /\ e.body.form = "text" => e.body.parses
    /\ e.body.doc.t = "obj"

ReqHas(e, k) == ReqHasObject(e) /\ k \in DOMAIN e.body.doc.v

ReqImage(e) == e.body.doc.v["image_base64"].v

ReqPatient(e) == e.body.doc.v["patient_id"].v

ReqAttributes(e) == e.body.doc.v["attributes"]

\* the request carries an image_base64 that decodes
Decodable(e) == ReqHas(e, "image_base64") /\ ~Raised(B64Decode(ReqImage(e)))

\* RFC 4648: alphabet characters in groups of four, the last group padded
\* with at most two "=" at its end
WellFormedB64(s) ==
    /\ Len(s) % 4 = 0
    /\ \A i \in 1..Len(s) : s[i] \in B64Alphabet \cup {Pad}
    /\ \A i \in 1..Len(s) :
         s[i] = Pad => /\ i >= Len(s) - 1
                       /\ \A j \in i..Len(s) : s[j] = Pad

\* what a collaborator call answered
CallRaised(c) == Raised(c.out)

ReturnedFace(c) ==
    c.op = "index_faces" /\ ~Raised(c.out) /\ c.out.FaceRecords # <<>>

ReturnedNoFace(c) ==
    c.op = "index_faces" /\ ~Raised(c.out) /\ c.out.FaceRecords = <<>>

ReturnedMatch(c) ==
    c.op = "search_faces_by_image" /\ ~Raised(c.out) /\ c.out.FaceMatches # <<>>

ReturnedNoMatch(c) ==
    c.op = "search_faces_by_image" /\ ~Raised(c.out) /\ c.out.FaceMatches = <<>>

ReturnedRecord(c) == c.op = "query" /\ ~Raised(c.out) /\ c.out.Items # <<>>

\* the value DynamoDB holds in a typed field
StoredValue(tv) == IF "S" \in DOMAIN tv THEN tv.S ELSE tv.N

BaseKeys == {"patient_id", "face_id", "created_at", "updated_at"}

---------------------------------------------------------------------------
(* C1 *)

ValidRegistration(e) ==
    /\ Decodable(e)
    /\ ReqHas(e, "patient_id")
    /\ ReqHas(e, "attributes") => ReqAttributes(e).t = "obj"

\* C1: a registration request whose body parses, with a decodable image, a
\* patient_id and attributes absent or a mapping, reaches the recognizer; when
\* the recognizer returns a face record it reaches the store; when the put
\* succeeds the response is 201 with the request's patient_id and the
\* identifier of the first face record.
C1_RegistrationCreated ==
    (inv.handler = "register" /\ ValidRegistration(inv.event)) =>
        /\ Len(inv.calls) >= 1
        /\ inv.calls[1].op = "index_faces"
        /\ ReturnedFace(inv.calls[1]) =>
             /\ Len(inv.calls) = 2
             /\ inv.calls[2].op = "put_item"
             /\ ~CallRaised(inv.calls[2]) =>
                  /\ inv.resp.statusCode = 201
                  /\ inv.resp.body =
                       [patient_id |-> ReqPatient(inv.event),
                        face_id |-> inv.calls[1].out.FaceRecords[1].Face.FaceId]

\* a 201 for a request whose attributes name a patient_id of their own
C1_Witness ==
    /\ inv.handler = "register"
    /\ ValidRegistration(inv.event)
    /\ inv.resp.statusCode = 201
    /\ ReqHas(inv.event, "attributes")
    /\ "patient_id" \in DOMAIN ReqAttributes(inv.event).v

---------------------------------------------------------------------------
(* C6 *)

\* C6: a registration request with a patient_id and a decodable image reaches
\* the recognizer, and when the recognizer returns no face record the
\* response is 422 with a message and the store is not called, whatever
\* attributes is.
C6_NoFaceUnprocessable ==
    (/\ inv.handler = "register"
     /\ Decodable(inv.event)
     /\ ReqHas(inv.event, "patient_id")) =>
        /\ Len(inv.calls) >= 1
        /\ inv.calls[1].op = "index_faces"
        /\ ReturnedNoFace(inv.calls[1]) =>
             /\ inv.resp.statusCode = 422
             /\ DOMAIN inv.resp.body = {"message"}
             /\ inv.resp.body.message # ""
             /\ Len(inv.calls) = 1

\* a 422 for a request whose attributes are not a mapping
C6_Witness ==
    /\ inv.handler = "register"
    /\ inv.resp.statusCode = 422
    /\ ReqHas(inv.event, "attributes")
    /\ ReqAttributes(inv.event).t # "obj"

---------------------------------------------------------------------------
(* C5 *)

NoRecordFor(face_id) == \A i \in store : i["face_id"] # [S |-> face_id]

\* C5: an identification request with a decodable image reaches the
\* recognizer.  Without a match the response is 404 "No confident match" and
\* the store is not queried.  With a match the store is queried for the
\* matched face_id, and when it answers and holds no record under that
\* face_id the response is 404 "Face mapped but no patient record".
C5_NotFound ==
    (inv.handler = "identify" /\ Decodable(inv.event)) =>
        /\ Len(inv.calls) >= 1
        /\ inv.calls[1].op = "search_faces_by_image"
        /\ ReturnedNoMatch(inv.calls[1]) =>
             /\ inv.resp.statusCode = 404
             /\ inv.resp.body = [message |-> "No confident match"]
             /\ Len(inv.calls) = 1
        /\ ReturnedMatch(inv.calls[1]) =>
             /\ Len(inv.calls) = 2
             /\ inv.calls[2].op = "query"
             /\ inv.calls[2].face_id = inv.calls[1].out.FaceMatches[1].Face.FaceId
             /\ (~CallRaised(inv.calls[2]) /\ NoRecordFor(inv.calls[2].face_id)) =>
                  /\ inv.resp.statusCode = 404
                  /\ inv.resp.body = [message |-> "Face mapped but no patient record"]

\* a match on a face that no record of the store carries
C5_Witness ==
    /\ inv.handler = "identify"
    /\ Decodable(inv.event)
    /\ Len(inv.calls) = 2
    /\ ReturnedMatch(inv.calls[1])
    /\ ~CallRaised(inv.calls[2])
    /\ NoRecordFor(inv.calls[2].face_id)
    /\ inv.resp.statusCode = 404

---------------------------------------------------------------------------
(* C7 *)

MissingRequired(i) ==
    \/ ~ReqHas(i.event, "image_base64")
    \/ i.handler = "register" /\ ~ReqHas(i.event, "patient_id")

Unparseable(e) == e.body.form = "text" /\ ~e.body.parses

\* a step of the invocation raised
StepRaised(i) ==
    \/ Unparseable(i.event)
    \/ MissingRequired(i)
    \/ ReqHas(i.event, "image_base64") /\ Raised(B64Decode(ReqImage(i.event)))
    \/ \E n \in 1..Len(i.calls) : CallRaised(i.calls[n])
    \/ /\ i.handler = "register"
       /\ \E n \in 1..Len(i.calls) : ReturnedFace(i.calls[n])
       /\ ReqHas(i.event, "attributes")
       /\ ReqAttributes(i.event).t # "obj"

\* C7: every invocation ends with a response; when a step raised (body text
\* that does not parse, a required field missing, a base64 error, a
\* recognizer or store error) the response is 500 with body {"error":
\* message}; when the body does not parse or a required field is missing no
\* collaborator was called.
C7_FailureResponse ==
    inv # Idle =>
        /\ inv.resp.statusCode \in {200, 201, 404, 422, 500}
        /\ StepRaised(inv) =>
             /\ inv.resp.statusCode = 500
             /\ DOMAIN inv.resp.body = {"error"}
        /\ (Unparseable(inv.event) \/ MissingRequired(inv)) => inv.calls = <<>>
        /\ (\E n \in 1..Len(inv.calls) : CallRaised(inv.calls[n])) =>
             inv.resp.body = [error |-> inv.calls[Len(inv.calls)].out.exc]

\* the store query raised after the recognizer had matched
C7_Witness ==
    /\ inv.handler = "identify"
    /\ Len(inv.calls) = 2
    /\ CallRaised(inv.calls[2])
    /\ inv.resp.statusCode = 500

---------------------------------------------------------------------------
(* C4 *)

\* C4: a request to either handler whose image_base64 is not well-formed
\* base64 is answered 500 with a non-empty error message, whatever the
\* collaborators would return.
C4_MalformedBase64Fails ==
    (/\ inv # Idle
     /\ ReqHas(inv.event, "image_base64")
     /\ ~WellFormedB64(ReqImage(inv.event))) =>
        /\ inv.resp.statusCode = 500
        /\ DOMAIN inv.resp.body = {"error"}
        /\ inv.resp.body.error # ""

---------------------------------------------------------------------------
(* C2 *)

\* the identification went through: a match, and a record for it
Identified(i) ==
    /\ i.handler = "identify"
    /\ Decodable(i.event)
    /\ Len(i.calls) = 2
    /\ ReturnedMatch(i.calls[1])
    /\ ReturnedRecord(i.calls[2])

MatchScore(i) == i.calls[1].out.FaceMatches[1].Similarity

FoundRecord(i) == i.calls[2].out.Items[1]

\* C2, as claimed: an identification with a match and a record for it is
\* answered 200 with every field of the record at its stored value, whatever
\* the field names, and a similarity field equal to the score of the match.
C2_EveryFieldVerbatim ==
    Identified(inv) =>
        /\ inv.resp.statusCode = 200
        /\ \A k \in DOMAIN FoundRecord(inv) :
             /\ k \in DOMAIN inv.resp.body
             /\ inv.resp.body[k] = JStr(StoredValue(FoundRecord(inv)[k]))
        /\ inv.resp.body["similarity"] = JNum(MatchScore(inv))

\* C2, amended: the answer is 200 with exactly the fields of the record and
\* similarity; every field of the record not named similarity is at its
\* stored value, and similarity is the score of the match (a stored field
\* named similarity is replaced by the score).
C2_FieldsAndScore ==
    Identified(inv) =>
        /\ inv.resp.statusCode = 200
        /\ DOMAIN inv.resp.body = DOMAIN FoundRecord(inv) \cup {"similarity"}
        /\ \A k \in DOMAIN FoundRecord(inv) \ {"similarity"} :
             inv.resp.body[k] = JStr(StoredValue(FoundRecord(inv)[k]))
        /\ inv.resp.body["similarity"] = JNum(MatchScore(inv))

\* a record that has a field named similarity is found
C2_Witness ==
    /\ Identified(inv)
    /\ "similarity" \in DOMAIN FoundRecord(inv)
    /\ inv.resp.statusCode = 200

---------------------------------------------------------------------------
(* C3, C8, C9 *)

Latest(p) == registered[p][Len(registered[p])]

Earlier(p) == { registered[p][n] : n \in 1..(Len(registered[p]) - 1) }

RecordsOf(p) == { i \in store : i["patient_id"] = [S |-> p] }

\* the string-valued attributes of a registration request
StringAttrs(e) ==
    IF ReqHas(e, "attributes") /\ ReqAttributes(e).t = "obj"
    THEN { k \in DOMAIN ReqAttributes(e).v : ReqAttributes(e).v[k].t = "str" }
    ELSE {}

\* the store answered an identification that matched face_id
AnsweredMatch(i) ==
    /\ i.handler = "identify"
    /\ Len(i.calls) = 2
    /\ ReturnedMatch(i.calls[1])
    /\ ~CallRaised(i.calls[2])

\* C3: once a patient_id has been registered twice with 201 (faces F1 then
\* F2; the recognizer gives the second image an identifier of its own, so
\* F1 # F2), the store holds exactly one record for it, with F2 and only the
\* attributes of the second call; an identification that matches F2 is
\* answered 200 with that patient_id, one that matches F1 is answered 404.
C3_SecondRegistrationOverwrites ==
    /\ (/\ inv.handler = "register"
        /\ inv.resp.statusCode = 201
        /\ Len(registered[inv.resp.body.patient_id]) >= 2) =>
           /\ Cardinality(RecordsOf(inv.resp.body.patient_id)) = 1
           /\ \A r \in RecordsOf(inv.resp.body.patient_id) :
                /\ r["face_id"] = [S |-> inv.resp.body.face_id]
                /\ \A k \in DOMAIN r \ BaseKeys :
                     /\ k \in StringAttrs(inv.event)
                     /\ r[k] = [S |-> ReqAttributes(inv.event).v[k].v]
                /\ StringAttrs(inv.event) \subseteq DOMAIN r
    /\ \A p \in PatientIds :
         (Len(registered[p]) >= 2 /\ AnsweredMatch(inv)) =>
            /\ inv.calls[2].face_id = Latest(p) =>
                 /\ inv.resp.statusCode = 200
                 /\ inv.resp.body["patient_id"] = JStr(p)
            /\ inv.calls[2].face_id \in Earlier(p) =>
                 inv.resp.statusCode = 404

FaceNumber(f) == CHOOSE n \in 1..Len(FaceNames) : FaceNames[n] = f

\* the 201 registrations so far, as <<patient_id, face_id>>
Registrations ==
    UNION { { <<p, registered[p][n]>> : n \in 1..Len(registered[p]) } :
            p \in PatientIds }

\* the latest of them: the recognizer numbers the faces in the order it
\* indexes them
LastRegistration ==
    CHOOSE x \in Registrations :
        \A y \in Registrations : FaceNumber(y[2]) <= FaceNumber(x[2])

\* C8: after a registration answered 201 with patient_id P and face_id F,
\* whatever the keys of its attributes, the store holds a record with
\* patient_id P and face_id F; and an identification that matches F before
\* any other registration is answered 200 with patient_id P.
C8_RecordLinksPatientToFace ==
    /\ (inv.handler = "register" /\ inv.resp.statusCode = 201) =>
          \E i \in store :
              /\ i["patient_id"] = [S |-> inv.resp.body.patient_id]
              /\ i["face_id"] = [S |-> inv.resp.body.face_id]
    /\ (/\ AnsweredMatch(inv)
        /\ Registrations # {}
        /\ inv.calls[2].face_id = LastRegistration[2]) =>
          /\ inv.resp.statusCode = 200
          /\ inv.resp.body["patient_id"] = JStr(LastRegistration[1])

\* C9: the store holds at most one record per patient_id and no two records
\* with the same face_id.
C9_UniqueKeys ==
    \A i, j \in store :
        (i["patient_id"] = j["patient_id"] \/ i["face_id"] = j["face_id"]) => i = j

---------------------------------------------------------------------------
(* C10 *)

\* the step is an invocation of the registration handler
RegisterStep == inv = Idle /\ inv'.handler = "register"

\* each collaborator is called at most once
NoRetry(calls) ==
    \A m, n \in 1..Len(calls) : calls[m].op = calls[n].op => m = n

\* both effects of a registration happened in the step
BothEffects(calls) ==
    /\ Cardinality(collection' \ collection) = 1
    /\ Len(calls) = 2
    /\ calls[2].op = "put_item"
    /\ calls[2].Item \in store'
    /\ \A i \in store' \ {calls[2].Item} : i \in store

\* C10, as claimed: a registration either answers 201 and indexed one face
\* and wrote one record, or answers 422 or 500 and changed neither the
\* collection nor the store; no collaborator is called twice.
C10_AllOrNothing ==
    [][RegisterStep =>
        /\ NoRetry(inv'.calls)
        /\ \/ inv'.resp.statusCode = 201 /\ BothEffects(inv'.calls)
           \/ /\ inv'.resp.statusCode \in {422, 500}
              /\ collection' = collection
              /\ store' = store]_vars

\* C10, amended: a registration either answers 201 and indexed one face and
\* wrote one record, or answers 422 and changed neither the collection nor
\* the store, or answers 500 and did not change the store, the collection
\* being unchanged or holding the one face that index_faces returned before
\* the failure; no collaborator is called twice.
C10_NoStoreChangeOnFailure ==
    [][RegisterStep =>
        /\ NoRetry(inv'.calls)
        /\ \/ inv'.resp.statusCode = 201 /\ BothEffects(inv'.calls)
           \/ /\ inv'.resp.statusCode = 422
              /\ collection' = collection
              /\ store' = store
           \/ /\ inv'.resp.statusCode = 500
              /\ store' = store
              /\ \/ collection' = collection
                 \/ /\ Cardinality(collection' \ collection) = 1
                    /\ Len(inv'.calls) >= 1
                    /\ ReturnedFace(inv'.calls[1])]_vars

\* a registration answered 500 after its face was indexed
C10_Witness ==
    /\ inv.handler = "register"
    /\ inv.resp.statusCode = 500
    /\ Len(inv.calls) >= 1
    /\ ReturnedFace(inv.calls[1])
    /\ \E f \in collection :
         f.FaceId = inv.calls[1].out.FaceRecords[1].Face.FaceId

====
